---- MODULE Spec2Model ----
(***************************************************************************)
(* Model of the OpenTelemetry demo client (main.go): the main goroutine's  *)
(* control flow through provider setup, instrument creation, the traced    *)
(* demo flow (main + simulateWork), the deferred calls and process exit,   *)
(* together with the environment it talks to (collector endpoint,          *)
(* exporters, background batch export, wall clock).                        *)
(***************************************************************************)
EXTENDS Integers, Sequences, FiniteSets, TLC

\* ---------------------------------------------------------------- bounds
\* Number of clock ticks that may pass between statements (besides Sleep).
MaxTick == 1
\* rand.Intn(n) is sampled at 0..MaxRand and at its largest value n-1.
MaxRand == 0

\* ------------------------------------------------------------- constants
DbBaseMs == 80
DbSpreadMs == 40
ApiBaseMs == 150
ApiSpreadMs == 100
FinalSleepMs == 5000
MemBaseMb == 50
MemSpreadMb == 50
MiB == 1048576

Producers == {"trace", "log", "metric"}
SpanNames == {"main-operation", "database-query", "external-api-call"}
NoSpan == "none"

\* context.Background(): the context handed to every Dial and Shutdown
\* carries no deadline and is never cancelled.
CtxHasDeadline == FALSE

\* rand.Intn(n): a value in 0..n-1 (sampled).
RandIntn(n) == {r \in 0..(n - 1) : r <= MaxRand \/ r = n - 1}

VARIABLES
    pc,            \* position of the main goroutine
    endpointState, \* collector endpoint: "up", "down" (unreachable), "bad" (rejected target)
    drain,         \* per producer: what its exporter does with a batch: "ok", "fail", "stuck"
    provider,      \* per producer: "none", "up", "shutdown"
    initErr,       \* producer whose setup returned an error, or "none"
    shutdownCalls, \* per producer: number of Shutdown invocations
    shutdownErr,   \* per producer: Shutdown returned an error
    instruments,   \* names of the instruments created
    spans,         \* per span name: its record
    lateWrites,    \* SetAttributes/SetStatus/End calls made on a span that was not active
    mainCtx,       \* span carried by main's ctx variable
    workCtx,       \* span carried by simulateWork's ctx variable
    logs,          \* sequence of emitted log records
    requestCounter,    \* requests_total: attribute set -> total
    activeConnections, \* active_connections: attribute set -> total
    requestDuration,   \* request_duration_seconds: attribute set -> [count, sum]
    memoryUsage,   \* last value observed by the memory_usage_bytes callback
    unflushed,     \* per producer: items buffered and not yet exported
    exported,      \* per producer: items exported
    dropped,       \* per producer: items emitted while the provider was not up
    deferMain,     \* main's stack of deferred calls (head runs first)
    deferWork,     \* simulateWork's stack of deferred calls
    dbDuration, apiDuration, requestStart, workErr,
    exitCode,      \* -1 while running, 0 after main returns, 1 after log.Fatalf
    now, ticks

vars == <<pc, endpointState, drain, provider, initErr, shutdownCalls, shutdownErr,
          instruments, spans, lateWrites, mainCtx, workCtx, logs, requestCounter,
          activeConnections, requestDuration, memoryUsage, unflushed, exported,
          dropped, deferMain, deferWork, dbDuration, apiDuration, requestStart,
          workErr, exitCode, now, ticks>>

envVars == <<endpointState, drain>>
provVars == <<provider, initErr, shutdownCalls, shutdownErr>>
spanVars == <<spans, lateWrites, mainCtx, workCtx>>
metricVars == <<requestCounter, activeConnections, requestDuration, memoryUsage>>
bufVars == <<unflushed, exported, dropped>>
localVars == <<dbDuration, apiDuration, requestStart, workErr>>
clockVars == <<now, ticks>>

NewSpan == [state |-> "unstarted", parent |-> NoSpan, parentActive |-> TRUE,
            start |-> 0, end |-> 0, ends |-> 0, attrs |-> 0, status |-> "unset"]

Init ==
    /\ pc = "setup_trace"
    /\ endpointState \in {"up", "down", "bad"}
    /\ drain \in [Producers -> {"ok", "fail", "stuck"}]
    /\ provider = [p \in Producers |-> "none"]
    /\ initErr = "none"
    /\ shutdownCalls = [p \in Producers |-> 0]
    /\ shutdownErr = [p \in Producers |-> FALSE]
    /\ instruments = {}
    /\ spans = [s \in SpanNames |-> NewSpan]
    /\ lateWrites = 0
    /\ mainCtx = NoSpan
    /\ workCtx = NoSpan
    /\ logs = <<>>
    /\ requestCounter = <<>>
    /\ activeConnections = <<>>
    /\ requestDuration = <<>>
    /\ memoryUsage = 0
    /\ unflushed = [p \in Producers |-> 0]
    /\ exported = [p \in Producers |-> 0]
    /\ dropped = [p \in Producers |-> 0]
    /\ deferMain = <<>>
    /\ deferWork = <<>>
    /\ dbDuration = 0
    /\ apiDuration = 0
    /\ requestStart = 0
    /\ workErr = FALSE
    /\ exitCode = -1
    /\ now = 0
    /\ ticks = 0

\* ------------------------------------------------------- provider setup

\* grpc.DialContext(ctx, endpoint, ..., grpc.WithBlock()): returns once the
\* connection is up or the target is rejected; against an unreachable endpoint
\* it keeps retrying until ctx is done.
DialReturns == endpointState # "down" \/ CtxHasDeadline
DialFails == endpointState # "up"

\* log.Fatalf: os.Exit(1); deferred calls do not run.
Fatalf ==
    /\ pc' = "exited"
    /\ exitCode' = 1
    /\ UNCHANGED deferMain

\* Variant: a failed setup is only reported and main carries on.
SetupProviderNonFatal(p, deferred, next) ==
    /\ DialReturns
    /\ \E newFails \in BOOLEAN :
          IF DialFails \/ newFails
          THEN /\ initErr' = p
               /\ pc' = next
               /\ UNCHANGED <<provider, deferMain, exitCode>>
          ELSE /\ provider' = [provider EXCEPT ![p] = "up"]
               /\ deferMain' = <<deferred>> \o deferMain
               /\ pc' = next
               /\ UNCHANGED <<initErr, exitCode>>
    /\ UNCHANGED <<envVars, shutdownCalls, shutdownErr, instruments, spanVars, logs,
                   metricVars, bufVars, deferWork, localVars, clockVars>>

\* setup*Provider followed by main's error check and its defer of Shutdown.
SetupProvider(p, deferred, next) ==
    /\ DialReturns
    /\ \E newFails \in BOOLEAN :
          IF DialFails \/ newFails
          THEN /\ initErr' = p
               /\ Fatalf
               /\ UNCHANGED provider
          ELSE /\ provider' = [provider EXCEPT ![p] = "up"]
               /\ deferMain' = <<deferred>> \o deferMain
               /\ pc' = next
               /\ UNCHANGED <<initErr, exitCode>>
    /\ UNCHANGED <<envVars, shutdownCalls, shutdownErr, instruments, spanVars, logs,
                   metricVars, bufVars, deferWork, localVars, clockVars>>

setupTraceProvider ==
    /\ pc = "setup_trace"
    /\ SetupProvider("trace", "traceProvider.Shutdown", "setup_log")

setupLogProvider ==
    /\ pc = "setup_log"
    /\ SetupProvider("log", "logProvider.Shutdown", "setup_metric")

setupMetricProvider ==
    /\ pc = "setup_metric"
    /\ SetupProvider("metric", "metricProvider.Shutdown", "new_counter")

\* ------------------------------------------------- instrument creation

\* meter.Int64Counter / Float64Histogram / Int64UpDownCounter /
\* Int64ObservableGauge followed by main's error check.
NewInstrument(name, next) ==
    /\ \E fails \in BOOLEAN :
          IF fails
          THEN /\ Fatalf
               /\ UNCHANGED instruments
          ELSE /\ instruments' = instruments \cup {name}
               /\ pc' = next
               /\ UNCHANGED <<exitCode, deferMain>>
    /\ UNCHANGED <<envVars, provVars, spanVars, logs, metricVars, bufVars,
                   deferWork, localVars, clockVars>>

NewRequestCounter ==
    /\ pc = "new_counter"
    /\ NewInstrument("requests_total", "new_histogram")

NewRequestDuration ==
    /\ pc = "new_histogram"
    /\ NewInstrument("request_duration_seconds", "new_updown")

NewActiveConnections ==
    /\ pc = "new_updown"
    /\ NewInstrument("active_connections", "new_gauge")

NewMemoryGauge ==
    /\ pc = "new_gauge"
    /\ NewInstrument("memory_usage_bytes", "start_root")

\* ------------------------------------------------------ SDK operations

\* Instrument.Add(ctx, v, WithAttributes(attrs)): sum aggregation keeps one
\* total per distinct attribute set.
CounterAdd(c, attrs, v) ==
    IF attrs \in DOMAIN c
    THEN [c EXCEPT ![attrs] = @ + v]
    ELSE [a \in DOMAIN c \cup {attrs} |-> IF a = attrs THEN v ELSE c[a]]

\* Histogram.Record(ctx, v, WithAttributes(attrs)).
HistogramRecord(h, attrs, v) ==
    IF attrs \in DOMAIN h
    THEN [h EXCEPT ![attrs] = [count |-> @.count + 1, sum |-> @.sum + v]]
    ELSE [a \in DOMAIN h \cup {attrs} |->
             IF a = attrs THEN [count |-> 1, sum |-> v] ELSE h[a]]

\* tracer.Start(ctx, name, ...): the new span's parent is the span carried by ctx.
SpanStart(sp, name, ctxSpan, t) ==
    [sp EXCEPT ![name] =
        [state |-> "active", parent |-> ctxSpan,
         parentActive |-> IF ctxSpan = NoSpan THEN TRUE ELSE sp[ctxSpan].state = "active",
         start |-> t, end |-> 0, ends |-> 0, attrs |-> 0, status |-> "unset"]]

\* span.End(): records the end timestamp; a second End is ignored by the SDK.
SpanEnd(sp, name, t) ==
    IF sp[name].state = "active"
    THEN [sp EXCEPT ![name].state = "ended", ![name].end = t, ![name].ends = @ + 1]
    ELSE [sp EXCEPT ![name].ends = @ + 1]

\* span.SetAttributes(...): recorded only while the span is recording.
SpanSetAttributes(sp, name) ==
    IF sp[name].state = "active" THEN [sp EXCEPT ![name].attrs = @ + 1] ELSE sp

\* span.SetStatus(code, description).
SpanSetStatus(sp, name, code) ==
    IF sp[name].state = "active" THEN [sp EXCEPT ![name].status = code] ELSE sp

\* A call on a span handle that is not active is caller misuse.
Misuse(sp, name) == IF sp[name].state = "active" THEN 0 ELSE 1

\* One item handed to producer p: buffered while the provider is up, dropped otherwise.
Emitted(p) ==
    /\ unflushed' = IF provider[p] = "up" THEN [unflushed EXCEPT ![p] = @ + 1] ELSE unflushed
    /\ dropped' = IF provider[p] = "up" THEN dropped ELSE [dropped EXCEPT ![p] = @ + 1]
    /\ UNCHANGED exported

\* Variant: the record is emitted with context.Background() instead of ctx.
logRecordBackground(ctxSpan, message, severity) ==
    /\ logs' = Append(logs, [body |-> message, severity |-> severity, span |-> NoSpan,
                             spanState |-> "none", time |-> now])
    /\ Emitted("log")

\* logRecord(ctx, logger, message, severity, attrs...): logger.Emit(ctx, record)
\* correlates the record with the span carried by ctx.
logRecord(ctxSpan, message, severity) ==
    /\ logs' = Append(logs, [body |-> message, severity |-> severity, span |-> ctxSpan,
                             spanState |-> IF ctxSpan = NoSpan THEN "none"
                                           ELSE spans[ctxSpan].state,
                             time |-> now])
    /\ Emitted("log")

\* Attribute sets used by simulateWork.
ConnDatabase == {<<"connection_type", "database">>}
ConnHttpClient == {<<"connection_type", "http_client">>}
\* Variant: the status attribute is left out of the attribute set.
RequestAttrsNoStatus(status) ==
    {<<"method", "GET">>, <<"endpoint", "/api/users">>}
RequestAttrs(status) ==
    {<<"method", "GET">>, <<"endpoint", "/api/users">>, <<"status", status>>}
DbQueryAttrs == {<<"operation", "database_query">>, <<"db.system", "postgresql">>}
ApiCallAttrs ==
    {<<"operation", "api_call">>, <<"http.method", "GET">>, <<"http.status_code", "200">>}
TotalRequestAttrs == RequestAttrs("success") \cup {<<"operation", "total_request">>}

\* ------------------------------------------------------------ main, part 2

\* Variant: rootSpan.End() is registered so that it runs after the Shutdowns.
StartRootSpanEndLast ==
    /\ pc = "start_root"
    /\ spans' = SpanStart(spans, "main-operation", mainCtx, now)
    /\ mainCtx' = "main-operation"
    /\ deferMain' = deferMain \o <<"rootSpan.End">>
    /\ pc' = "log_start"
    /\ UNCHANGED <<envVars, provVars, instruments, lateWrites, workCtx, logs, metricVars,
                   bufVars, deferWork, localVars, exitCode, clockVars>>

\* Variant: rootSpan.End() is called at once instead of being deferred.
StartRootSpanNoDefer ==
    /\ pc = "start_root"
    /\ spans' = SpanEnd(SpanStart(spans, "main-operation", mainCtx, now),
                        "main-operation", now)
    /\ mainCtx' = "main-operation"
    /\ Emitted("trace")
    /\ pc' = "log_start"
    /\ UNCHANGED <<envVars, provVars, instruments, lateWrites, workCtx, logs, metricVars,
                   deferMain, deferWork, localVars, exitCode, clockVars>>

StartRootSpan ==
    /\ pc = "start_root"
    /\ spans' = SpanStart(spans, "main-operation", mainCtx, now)
    /\ mainCtx' = "main-operation"
    /\ deferMain' = <<"rootSpan.End">> \o deferMain
    /\ pc' = "log_start"
    /\ UNCHANGED <<envVars, provVars, instruments, lateWrites, workCtx, logs, metricVars,
                   bufVars, deferWork, localVars, exitCode, clockVars>>

LogStart ==
    /\ pc = "log_start"
    /\ logRecord(mainCtx, "Starting main operation", "info")
    /\ pc' = "sw_conn_db"
    /\ UNCHANGED <<envVars, provVars, instruments, spanVars, metricVars, deferMain,
                   deferWork, localVars, exitCode, clockVars>>

\* ---------------------------------------------------------- simulateWork

\* Entry: ctx is main's ctx; activeConnections.Add(+1, database) and its deferred -1.
SwConnDatabase ==
    /\ pc = "sw_conn_db"
    /\ workCtx' = mainCtx
    /\ activeConnections' = CounterAdd(activeConnections, ConnDatabase, 1)
    /\ Emitted("metric")
    /\ deferWork' = <<"activeConnections.Add(-1,database)">> \o deferWork
    /\ pc' = "sw_req_start"
    /\ UNCHANGED <<envVars, provVars, instruments, spans, lateWrites, mainCtx, logs,
                   requestCounter, requestDuration, memoryUsage, deferMain, localVars,
                   exitCode, clockVars>>

SwRequestStart ==
    /\ pc = "sw_req_start"
    /\ requestStart' = now
    /\ requestCounter' = CounterAdd(requestCounter, RequestAttrs("processing"), 1)
    /\ Emitted("metric")
    /\ pc' = "sw_start_db"
    /\ UNCHANGED <<envVars, provVars, instruments, spanVars, logs, activeConnections,
                   requestDuration, memoryUsage, deferMain, deferWork, dbDuration,
                   apiDuration, workErr, exitCode, clockVars>>

\* Variant: dbSpan.End() is called at once instead of being deferred.
SwStartDbSpanNoDefer ==
    /\ pc = "sw_start_db"
    /\ spans' = SpanEnd(SpanStart(spans, "database-query", workCtx, now),
                        "database-query", now)
    /\ workCtx' = "database-query"
    /\ Emitted("trace")
    /\ pc' = "sw_log_db"
    /\ UNCHANGED <<envVars, provVars, instruments, lateWrites, mainCtx, logs, metricVars,
                   deferMain, deferWork, localVars, exitCode, clockVars>>

\* ctx, dbSpan := tracer.Start(ctx, "database-query", ...); defer dbSpan.End()
SwStartDbSpan ==
    /\ pc = "sw_start_db"
    /\ spans' = SpanStart(spans, "database-query", workCtx, now)
    /\ workCtx' = "database-query"
    /\ deferWork' = <<"dbSpan.End">> \o deferWork
    /\ pc' = "sw_log_db"
    /\ UNCHANGED <<envVars, provVars, instruments, lateWrites, mainCtx, logs, metricVars,
                   bufVars, deferMain, localVars, exitCode, clockVars>>

SwLogDbQuery ==
    /\ pc = "sw_log_db"
    /\ logRecord(workCtx, "Executing database query", "debug")
    /\ pc' = "sw_sleep_db"
    /\ UNCHANGED <<envVars, provVars, instruments, spanVars, metricVars, deferMain,
                   deferWork, localVars, exitCode, clockVars>>

SwSleepDb ==
    /\ pc = "sw_sleep_db"
    /\ \E r \in RandIntn(DbSpreadMs) :
          /\ dbDuration' = DbBaseMs + r
          /\ now' = now + DbBaseMs + r
    /\ pc' = "sw_rec_db"
    /\ UNCHANGED <<envVars, provVars, instruments, spanVars, logs, metricVars, bufVars,
                   deferMain, deferWork, apiDuration, requestStart, workErr, exitCode,
                   ticks>>

SwRecordDb ==
    /\ pc = "sw_rec_db"
    /\ requestDuration' = HistogramRecord(requestDuration, DbQueryAttrs, dbDuration)
    /\ Emitted("metric")
    /\ pc' = "sw_attr_db"
    /\ UNCHANGED <<envVars, provVars, instruments, spanVars, logs, requestCounter,
                   activeConnections, memoryUsage, deferMain, deferWork, localVars,
                   exitCode, clockVars>>

SwDbSpanAttributes ==
    /\ pc = "sw_attr_db"
    /\ spans' = SpanSetAttributes(spans, "database-query")
    /\ lateWrites' = lateWrites + Misuse(spans, "database-query")
    /\ pc' = "sw_conn_http"
    /\ UNCHANGED <<envVars, provVars, instruments, mainCtx, workCtx, logs, metricVars,
                   bufVars, deferMain, deferWork, localVars, exitCode, clockVars>>

SwConnHttpClient ==
    /\ pc = "sw_conn_http"
    /\ activeConnections' = CounterAdd(activeConnections, ConnHttpClient, 1)
    /\ Emitted("metric")
    /\ deferWork' = <<"activeConnections.Add(-1,http_client)">> \o deferWork
    /\ pc' = "sw_start_api"
    /\ UNCHANGED <<envVars, provVars, instruments, spanVars, logs, requestCounter,
                   requestDuration, memoryUsage, deferMain, localVars, exitCode,
                   clockVars>>

\* ctx, apiSpan := tracer.Start(ctx, "external-api-call", ...); defer apiSpan.End()
SwStartApiSpan ==
    /\ pc = "sw_start_api"
    /\ spans' = SpanStart(spans, "external-api-call", workCtx, now)
    /\ workCtx' = "external-api-call"
    /\ deferWork' = <<"apiSpan.End">> \o deferWork
    /\ pc' = "sw_log_api"
    /\ UNCHANGED <<envVars, provVars, instruments, lateWrites, mainCtx, logs, metricVars,
                   bufVars, deferMain, localVars, exitCode, clockVars>>

SwLogApiCall ==
    /\ pc = "sw_log_api"
    /\ logRecord(workCtx, "Making external API call", "info")
    /\ pc' = "sw_sleep_api"
    /\ UNCHANGED <<envVars, provVars, instruments, spanVars, metricVars, deferMain,
                   deferWork, localVars, exitCode, clockVars>>

SwSleepApi ==
    /\ pc = "sw_sleep_api"
    /\ \E r \in RandIntn(ApiSpreadMs) :
          /\ apiDuration' = ApiBaseMs + r
          /\ now' = now + ApiBaseMs + r
    /\ pc' = "sw_rec_api"
    /\ UNCHANGED <<envVars, provVars, instruments, spanVars, logs, metricVars, bufVars,
                   deferMain, deferWork, dbDuration, requestStart, workErr, exitCode,
                   ticks>>

SwRecordApi ==
    /\ pc = "sw_rec_api"
    /\ requestDuration' = HistogramRecord(requestDuration, ApiCallAttrs, apiDuration)
    /\ Emitted("metric")
    /\ pc' = "sw_attr_api"
    /\ UNCHANGED <<envVars, provVars, instruments, spanVars, logs, requestCounter,
                   activeConnections, memoryUsage, deferMain, deferWork, localVars,
                   exitCode, clockVars>>

SwApiSpanAttributes ==
    /\ pc = "sw_attr_api"
    /\ spans' = SpanSetAttributes(spans, "external-api-call")
    /\ lateWrites' = lateWrites + Misuse(spans, "external-api-call")
    /\ pc' = "sw_log_done"
    /\ UNCHANGED <<envVars, provVars, instruments, mainCtx, workCtx, logs, metricVars,
                   bufVars, deferMain, deferWork, localVars, exitCode, clockVars>>

SwLogApiDone ==
    /\ pc = "sw_log_done"
    /\ logRecord(workCtx, "API call completed successfully", "info")
    /\ pc' = "sw_rec_total"
    /\ UNCHANGED <<envVars, provVars, instruments, spanVars, metricVars, deferMain,
                   deferWork, localVars, exitCode, clockVars>>

\* totalDuration := time.Since(requestStart)
SwRecordTotal ==
    /\ pc = "sw_rec_total"
    /\ requestDuration' =
          HistogramRecord(requestDuration, TotalRequestAttrs, now - requestStart)
    /\ Emitted("metric")
    /\ pc' = "sw_req_final"
    /\ UNCHANGED <<envVars, provVars, instruments, spanVars, logs, requestCounter,
                   activeConnections, memoryUsage, deferMain, deferWork, localVars,
                   exitCode, clockVars>>

SwRequestFinal ==
    /\ pc = "sw_req_final"
    /\ requestCounter' = CounterAdd(requestCounter, RequestAttrs("success"), 1)
    /\ Emitted("metric")
    /\ pc' = "sw_return"
    /\ UNCHANGED <<envVars, provVars, instruments, spanVars, logs, activeConnections,
                   requestDuration, memoryUsage, deferMain, deferWork, localVars,
                   exitCode, clockVars>>

\* return nil: the result is set, then the deferred calls run, last deferred first.
SwReturn ==
    /\ pc = "sw_return"
    /\ workErr' = FALSE
    /\ pc' = "sw_defers"
    /\ UNCHANGED <<envVars, provVars, instruments, spanVars, logs, metricVars, bufVars,
                   deferMain, deferWork, dbDuration, apiDuration, requestStart, exitCode,
                   clockVars>>

\* A deferred span.End() of simulateWork.
DeferredSpanEnd(label, name) ==
    /\ pc = "sw_defers"
    /\ deferWork # <<>>
    /\ Head(deferWork) = label
    /\ spans' = SpanEnd(spans, name, now)
    /\ lateWrites' = lateWrites + Misuse(spans, name)
    /\ Emitted("trace")
    /\ deferWork' = Tail(deferWork)
    /\ UNCHANGED <<pc, envVars, provVars, instruments, mainCtx, workCtx, logs,
                   metricVars, deferMain, localVars, exitCode, clockVars>>

\* A deferred activeConnections.Add(ctx, -1, ...) of simulateWork.
DeferredConnDec(label, attrs) ==
    /\ pc = "sw_defers"
    /\ deferWork # <<>>
    /\ Head(deferWork) = label
    /\ activeConnections' = CounterAdd(activeConnections, attrs, -1)
    /\ Emitted("metric")
    /\ deferWork' = Tail(deferWork)
    /\ UNCHANGED <<pc, envVars, provVars, instruments, spanVars, logs, requestCounter,
                   requestDuration, memoryUsage, deferMain, localVars, exitCode,
                   clockVars>>

DeferredApiSpanEnd == DeferredSpanEnd("apiSpan.End", "external-api-call")
DeferredDbSpanEnd == DeferredSpanEnd("dbSpan.End", "database-query")
DeferredConnHttpDec == DeferredConnDec("activeConnections.Add(-1,http_client)", ConnHttpClient)
DeferredConnDbDec == DeferredConnDec("activeConnections.Add(-1,database)", ConnDatabase)

\* simulateWork has returned to main once its deferred calls have run.
SwReturned ==
    /\ pc = "sw_defers"
    /\ deferWork = <<>>
    /\ pc' = "main_status"
    /\ UNCHANGED <<envVars, provVars, instruments, spanVars, logs, metricVars, bufVars,
                   deferMain, deferWork, localVars, exitCode, clockVars>>

simulateWork ==
    \/ SwConnDatabase
    \/ SwRequestStart
    \/ SwStartDbSpan
    \/ SwLogDbQuery
    \/ SwSleepDb
    \/ SwRecordDb
    \/ SwDbSpanAttributes
    \/ SwConnHttpClient
    \/ SwStartApiSpan
    \/ SwLogApiCall
    \/ SwSleepApi
    \/ SwRecordApi
    \/ SwApiSpanAttributes
    \/ SwLogApiDone
    \/ SwRecordTotal
    \/ SwRequestFinal
    \/ SwReturn
    \/ DeferredApiSpanEnd
    \/ DeferredConnHttpDec
    \/ DeferredDbSpanEnd
    \/ DeferredConnDbDec
    \/ SwReturned

\* ------------------------------------------------------------ main, part 3

\* if err := simulateWork(...); err != nil { SetStatus(Error) } else { SetStatus(Ok) }
MainSetStatus ==
    /\ pc = "main_status"
    /\ spans' = SpanSetStatus(spans, "main-operation", IF workErr THEN "error" ELSE "ok")
    /\ lateWrites' = lateWrites + Misuse(spans, "main-operation")
    /\ pc' = "main_log_result"
    /\ UNCHANGED <<envVars, provVars, instruments, mainCtx, workCtx, logs, metricVars,
                   bufVars, deferMain, deferWork, localVars, exitCode, clockVars>>

MainLogResult ==
    /\ pc = "main_log_result"
    /\ IF workErr
       THEN logRecord(mainCtx, "Operation failed", "error")
       ELSE logRecord(mainCtx, "Operation completed successfully", "info")
    /\ pc' = "main_sleep"
    /\ UNCHANGED <<envVars, provVars, instruments, spanVars, metricVars, deferMain,
                   deferWork, localVars, exitCode, clockVars>>

\* time.Sleep(5 * time.Second), then main returns and its deferred calls run.
MainSleep ==
    /\ pc = "main_sleep"
    /\ now' = now + FinalSleepMs
    /\ pc' = "main_defers"
    /\ UNCHANGED <<envVars, provVars, instruments, spanVars, logs, metricVars, bufVars,
                   deferMain, deferWork, localVars, exitCode, ticks>>

\* defer rootSpan.End()
DeferredRootSpanEnd ==
    /\ pc = "main_defers"
    /\ deferMain # <<>>
    /\ Head(deferMain) = "rootSpan.End"
    /\ spans' = SpanEnd(spans, "main-operation", now)
    /\ lateWrites' = lateWrites + Misuse(spans, "main-operation")
    /\ Emitted("trace")
    /\ deferMain' = Tail(deferMain)
    /\ UNCHANGED <<pc, envVars, provVars, instruments, mainCtx, workCtx, logs, metricVars,
                   deferWork, localVars, exitCode, clockVars>>

ShutdownLabel(p) ==
    CASE p = "trace" -> "traceProvider.Shutdown"
      [] p = "log" -> "logProvider.Shutdown"
      [] p = "metric" -> "metricProvider.Shutdown"

\* A deferred func() { provider.Shutdown(ctx) ... } is entered: Shutdown is invoked
\* and the provider stops accepting data.
ShutdownInvoke(p) ==
    /\ pc = "main_defers"
    /\ deferMain # <<>>
    /\ Head(deferMain) = ShutdownLabel(p)
    /\ shutdownCalls' = [shutdownCalls EXCEPT ![p] = @ + 1]
    /\ provider' = [provider EXCEPT ![p] = "shutdown"]
    /\ pc' = "in_shutdown"
    /\ UNCHANGED <<envVars, initErr, shutdownErr, instruments, spanVars, logs, metricVars,
                   bufVars, deferMain, deferWork, localVars, exitCode, clockVars>>

\* Shutdown(ctx) waits for the exporter to drain the buffer, or for ctx to be done.
ShutdownCanReturn(p) == drain[p] # "stuck" \/ CtxHasDeadline

\* The metric reader's final collection invokes the gauge callback, when registered.
GaugeObserve ==
    IF "memory_usage_bytes" \in instruments
    THEN \E r \in RandIntn(MemSpreadMb) : memoryUsage' = MiB * (MemBaseMb + r)
    ELSE UNCHANGED memoryUsage

\* Variant: a Shutdown error is reported with log.Fatalf.
ShutdownReturnFatal(p) ==
    /\ pc = "in_shutdown"
    /\ Head(deferMain) = ShutdownLabel(p)
    /\ ShutdownCanReturn(p)
    /\ IF drain[p] = "ok"
       THEN /\ exported' = [exported EXCEPT ![p] = @ + unflushed[p]]
            /\ unflushed' = [unflushed EXCEPT ![p] = 0]
            /\ deferMain' = Tail(deferMain)
            /\ pc' = "main_defers"
            /\ UNCHANGED <<shutdownErr, exitCode>>
       ELSE /\ shutdownErr' = [shutdownErr EXCEPT ![p] = TRUE]
            /\ Fatalf
            /\ UNCHANGED <<exported, unflushed>>
    /\ IF p = "metric" THEN GaugeObserve ELSE UNCHANGED memoryUsage
    /\ UNCHANGED <<envVars, provider, initErr, shutdownCalls, instruments, spanVars, logs,
                   requestCounter, activeConnections, requestDuration, dropped, deferWork,
                   localVars, clockVars>>

\* Shutdown returns: nil after a successful drain, else an error that the
\* deferred func only reports with log.Printf.
ShutdownReturn(p) ==
    /\ pc = "in_shutdown"
    /\ Head(deferMain) = ShutdownLabel(p)
    /\ ShutdownCanReturn(p)
    /\ IF drain[p] = "ok"
       THEN /\ exported' = [exported EXCEPT ![p] = @ + unflushed[p]]
            /\ unflushed' = [unflushed EXCEPT ![p] = 0]
            /\ UNCHANGED shutdownErr
       ELSE /\ shutdownErr' = [shutdownErr EXCEPT ![p] = TRUE]
            /\ UNCHANGED <<exported, unflushed>>
    /\ IF p = "metric" THEN GaugeObserve ELSE UNCHANGED memoryUsage
    /\ deferMain' = Tail(deferMain)
    /\ pc' = "main_defers"
    /\ UNCHANGED <<envVars, provider, initErr, shutdownCalls, instruments, spanVars, logs,
                   requestCounter, activeConnections, requestDuration, dropped, deferWork,
                   localVars, exitCode, clockVars>>

DeferredMetricShutdown == ShutdownInvoke("metric")
MetricShutdownReturn == ShutdownReturn("metric")
DeferredLogShutdown == ShutdownInvoke("log")
LogShutdownReturn == ShutdownReturn("log")
DeferredTraceShutdown == ShutdownInvoke("trace")
TraceShutdownReturn == ShutdownReturn("trace")

\* main has run all its deferred calls: the process exits with status 0.
MainExit ==
    /\ pc = "main_defers"
    /\ deferMain = <<>>
    /\ pc' = "exited"
    /\ exitCode' = 0
    /\ UNCHANGED <<envVars, provVars, instruments, spanVars, logs, metricVars, bufVars,
                   deferMain, deferWork, localVars, clockVars>>

main ==
    \/ setupTraceProvider
    \/ setupLogProvider
    \/ setupMetricProvider
    \/ NewRequestCounter
    \/ NewRequestDuration
    \/ NewActiveConnections
    \/ NewMemoryGauge
    \/ StartRootSpan
    \/ LogStart
    \/ simulateWork
    \/ MainSetStatus
    \/ MainLogResult
    \/ MainSleep
    \/ DeferredRootSpanEnd
    \/ DeferredMetricShutdown
    \/ MetricShutdownReturn
    \/ DeferredLogShutdown
    \/ LogShutdownReturn
    \/ DeferredTraceShutdown
    \/ TraceShutdownReturn
    \/ MainExit

\* ------------------------------------------------------------ environment

\* The batch span processor / batch log processor exports its queue in the background.
BatchExport(p) ==
    /\ pc # "exited"
    /\ provider[p] = "up"
    /\ drain[p] = "ok"
    /\ unflushed[p] > 0
    /\ exported' = [exported EXCEPT ![p] = @ + unflushed[p]]
    /\ unflushed' = [unflushed EXCEPT ![p] = 0]
    /\ UNCHANGED <<pc, envVars, provVars, instruments, spanVars, logs, metricVars, dropped,
                   deferMain, deferWork, localVars, exitCode, clockVars>>

TraceBatchExport == BatchExport("trace")
LogBatchExport == BatchExport("log")

\* The collector becomes unreachable while the program is still initializing.
CollectorStops ==
    /\ pc \in {"setup_trace", "setup_log", "setup_metric"}
    /\ endpointState = "up"
    /\ endpointState' = "down"
    /\ UNCHANGED <<pc, drain, provVars, instruments, spanVars, logs, metricVars, bufVars,
                   deferMain, deferWork, localVars, exitCode, clockVars>>

\* Wall-clock time passes between two statements.
Tick ==
    /\ pc # "exited"
    /\ ticks < MaxTick
    /\ ticks' = ticks + 1
    /\ now' = now + 1
    /\ UNCHANGED <<pc, envVars, provVars, instruments, spanVars, logs, metricVars, bufVars,
                   deferMain, deferWork, localVars, exitCode>>

Next ==
    \/ main
    \/ TraceBatchExport
    \/ LogBatchExport
    \/ CollectorStops
    \/ Tick

Spec == Init /\ [][Next]_vars

\* The Go scheduler keeps running the main goroutine whenever it can take a step.
FairSpec == Spec /\ WF_vars(main)

\* ================================================================ properties

Range(q) == {q[i] : i \in 1..Len(q)}
AllInitialized == \A p \in Producers : provider[p] # "none"
Started(s) == spans[s].state # "unstarted"
Ended(s) == spans[s].state = "ended"
NothingEmitted ==
    /\ instruments = {}
    /\ \A s \in SpanNames : ~Started(s)
    /\ logs = <<>>
    /\ requestCounter = <<>> /\ activeConnections = <<>> /\ requestDuration = <<>>
    /\ \A p \in Producers : unflushed[p] = 0 /\ exported[p] = 0 /\ dropped[p] = 0

\* C1: on every run in which all three producers were initialized, each
\* producer's Shutdown has been invoked exactly once when the process has
\* terminated, no Shutdown is invoked before every span has been ended, and with
\* succeeding exporters nothing is left un-flushed at process exit.
C1_ShutdownOnceBeforeExit ==
    /\ (pc = "exited" /\ AllInitialized) => \A p \in Producers : shutdownCalls[p] = 1
    /\ \A p \in Producers : shutdownCalls[p] <= 1
    /\ (\E p \in Producers : shutdownCalls[p] > 0) => \A s \in SpanNames : Ended(s)
    /\ (pc = "exited" /\ AllInitialized /\ \A p \in Producers : drain[p] = "ok")
          => \A p \in Producers : unflushed[p] = 0

C3_SetupReturns ==
    /\ pc = "setup_trace" => ENABLED setupTraceProvider
    /\ pc = "setup_log" => ENABLED setupLogProvider
    /\ pc = "setup_metric" => ENABLED setupMetricProvider

\* C4: an invoked Shutdown always returns (with an error once its timeout
\* elapses if the exporter never drains), so once the demo flow is complete the
\* main goroutine can always take its next step towards process exit.
C4_ShutdownReturns ==
    pc \in {"main_defers", "in_shutdown"} => ENABLED main

\* C5: a Shutdown error is never fatal: it never leads to exit status 1, the
\* Shutdown of every producer not yet shut down stays scheduled and the main
\* goroutine goes on to it, and a normal exit has invoked all three Shutdowns.
C5_ShutdownErrorNotFatal ==
    /\ (\E p \in Producers : shutdownErr[p]) => exitCode # 1
    /\ \A p \in Producers :
          (pc \in {"main_defers", "in_shutdown"} /\ shutdownCalls[p] = 0)
             => ShutdownLabel(p) \in Range(deferMain)
    /\ pc = "main_defers" => ENABLED main
    /\ (pc = "exited" /\ exitCode = 0) => \A p \in Producers : shutdownCalls[p] = 1

C5_Witness ==
    /\ pc = "exited" /\ exitCode = 0
    /\ shutdownErr["metric"] /\ shutdownErr["log"] /\ ~shutdownErr["trace"]
    /\ \A p \in Producers : shutdownCalls[p] = 1

EndLabel(s) ==
    CASE s = "main-operation" -> "rootSpan.End"
      [] s = "database-query" -> "dbSpan.End"
      [] s = "external-api-call" -> "apiSpan.End"

\* C6: every span goes unstarted -> active -> ended: End is called at most once
\* per span and only on an active span, an active span has its End pending and
\* the main goroutine is never stuck or exited while a span is active, and
\* attributes and status are only set on active spans.
C6_SpanLifecycle ==
    /\ \A s \in SpanNames :
          /\ spans[s].ends <= 1
          /\ spans[s].ends = 1 <=> Ended(s)
          /\ spans[s].state = "active"
                => /\ EndLabel(s) \in Range(deferMain) \cup Range(deferWork)
                   /\ pc \notin {"exited", "in_shutdown"}
                   /\ ENABLED main
          /\ (spans[s].attrs > 0 \/ spans[s].status # "unset") => Started(s)
    /\ lateWrites = 0
    /\ pc = "exited" => \A s \in SpanNames : Started(s) => Ended(s)

C6_Witness ==
    /\ \A s \in SpanNames : Ended(s) /\ spans[s].ends = 1
    /\ spans["database-query"].attrs = 1
    /\ spans["external-api-call"].attrs = 1
    /\ spans["main-operation"].status = "ok"

\* Values recorded in the aggregation check.
MaxValue == 2

\* C7: a counter keeps one total per distinct attribute set: adding v1 then v2
\* under one attribute set adds v1 + v2 to that set's total and creates no other
\* data point; the two requests_total increments of simulateWork give two data
\* points (status=processing, status=success) of total 1 each, never a total 2;
\* active_connections +1 then -1 under connection_type=database is one point 0.
C7_CounterPerAttributeSet ==
    /\ \A a \in DOMAIN requestCounter : requestCounter[a] = 1
    /\ pc \in {"sw_return", "sw_defers", "main_status", "exited"} /\ exitCode # 1
          => /\ DOMAIN requestCounter = {RequestAttrs("processing"), RequestAttrs("success")}
             /\ Cardinality(DOMAIN requestCounter) = 2
    /\ pc = "main_status"
          => /\ DOMAIN activeConnections = {ConnDatabase, ConnHttpClient}
             /\ activeConnections[ConnDatabase] = 1 + (-1)
    /\ \A a \in DOMAIN requestCounter : \A v1, v2 \in 1..MaxValue :
          LET c == CounterAdd(CounterAdd(requestCounter, a, v1), a, v2)
          IN  /\ c[a] = requestCounter[a] + v1 + v2
              /\ DOMAIN c = DOMAIN requestCounter
              /\ \A b \in DOMAIN c \ {a} : c[b] = requestCounter[b]

C7_Witness ==
    /\ pc = "main_status"
    /\ requestCounter[RequestAttrs("processing")] = 1
    /\ requestCounter[RequestAttrs("success")] = 1

ExpectedSpan(body) ==
    CASE body = "Executing database query" -> "database-query"
      [] body \in {"Making external API call", "API call completed successfully"}
            -> "external-api-call"
      [] OTHER -> "main-operation"

\* C8: every emitted log record carries the span of the context it was emitted
\* with, that span was active at the moment of emission, and no record is
\* emitted without a span.
C8_LogsCorrelated ==
    \A i \in 1..Len(logs) :
       /\ logs[i].span # NoSpan
       /\ logs[i].spanState = "active"
       /\ logs[i].span = ExpectedSpan(logs[i].body)
       /\ logs[i].time >= spans[logs[i].span].start
       /\ Ended(logs[i].span) => logs[i].time <= spans[logs[i].span].end

C8_Witness ==
    /\ Len(logs) = 5
    /\ logs[2].span = "database-query"
    /\ logs[5].span = "main-operation"
    /\ \A s \in SpanNames : Ended(s)

\* C9: spans form a tree rooted at main-operation with nested lifetimes: a child
\* is started while its parent is active and not before it, is ended before its
\* parent is ended and lasts no longer, and no span ends before it starts.
C9_SpanNesting ==
    \A s \in SpanNames : Started(s) =>
       /\ spans[s].parent = NoSpan <=> s = "main-operation"
       /\ spans[s].parent # s
       /\ spans[s].parentActive
       /\ Ended(s) => spans[s].end >= spans[s].start
       /\ spans[s].parent # NoSpan =>
             LET q == spans[s].parent
             IN  /\ Started(q)
                 /\ spans[s].start >= spans[q].start
                 /\ Ended(q) => /\ Ended(s)
                                /\ spans[s].end <= spans[q].end
                                /\ spans[q].end - spans[q].start
                                      >= spans[s].end - spans[s].start

C9_Witness ==
    /\ \A s \in SpanNames : Ended(s)
    /\ spans["database-query"].parent = "main-operation"
    /\ spans["database-query"].start > spans["main-operation"].start
    /\ spans["main-operation"].end > spans["database-query"].end

\* C10: database-query and external-api-call are both children of
\* main-operation (siblings).
C10_ApiSiblingOfDb ==
    /\ Started("database-query") => spans["database-query"].parent = "main-operation"
    /\ Started("external-api-call") => spans["external-api-call"].parent = "main-operation"

\* C11: on every exit path, each producer that was constructed has had its
\* Shutdown invoked (once) when the process has terminated, also when the
\* initialization of a later producer failed.
C11_ConstructedProducersReleased ==
    pc = "exited" =>
       \A p \in Producers : provider[p] # "none" => shutdownCalls[p] = 1

\* C12: no emission after Shutdown: every step that starts, ends or updates a
\* span, emits a log record or records a metric is taken while the Shutdown of
\* the corresponding producer has not been invoked, nothing is ever dropped by a
\* shut-down producer, and when a Shutdown is invoked every deferred call of
\* simulateWork has run, every span is ended and both connection counts are
\* back at 0.
C12_Step ==
    /\ spans' # spans => shutdownCalls["trace"] = 0 /\ provider["trace"] = "up"
    /\ logs' # logs => shutdownCalls["log"] = 0 /\ provider["log"] = "up"
    /\ <<requestCounter, activeConnections, requestDuration>>'
          # <<requestCounter, activeConnections, requestDuration>>
          => shutdownCalls["metric"] = 0 /\ provider["metric"] = "up"
    /\ dropped' = dropped /\ \A p \in Producers : dropped[p] = 0
    /\ shutdownCalls' # shutdownCalls
          => /\ deferWork = <<>>
             /\ "rootSpan.End" \notin Range(deferMain)
             /\ \A s \in SpanNames : Ended(s)
             /\ activeConnections[ConnDatabase] = 0
             /\ activeConnections[ConnHttpClient] = 0

C12_NoEmitAfterShutdown == [][C12_Step]_vars

C12_Witness ==
    /\ pc = "exited" /\ exitCode = 0
    /\ \A p \in Producers : shutdownCalls[p] = 1 /\ dropped[p] = 0
    /\ \A s \in SpanNames : Ended(s)
    /\ Len(logs) = 5
    /\ DOMAIN requestDuration = {DbQueryAttrs, ApiCallAttrs, TotalRequestAttrs}
====
